---- MODULE Spec2Model ----
(***************************************************************************)
(* A model of the observable-data-model layer of jupyterlab-google-drive:  *)
(* GoogleVector (the adapter over a collaborative list) and GoogleModelDB  *)
(* (the path store with its lazy document resolution, views and disposal). *)
(* Indices are 0-based as in the code; TLA+ sequences are 1-based, so the  *)
(* element the code calls index i is s[i + 1].                             *)
(***************************************************************************)
EXTENDS Integers, Sequences, FiniteSets, TLC

\* ------------------------------------------------------------------ bounds
MaxLen == 3
MaxStoreLen == 1
MaxSlots == 1
MaxCalls == 4
MaxBridges == 3

Items == {"A", "B", "C"}
Batches == {<<>>, <<"A">>, <<"B", "C">>}
VecIds == {"v1", "v2"}
ValIds == {"o1", "o2"}
PrimOrder == <<"p1", "p2", "p3", "p4", "p5", "p6", "p7">>
PrimIds == {PrimOrder[k] : k \in 1..Len(PrimOrder)}
NoPrim == "null"
ModelIds == {"mem", "auth"}
StoreIds == {"root", "view"}
Paths == {"x", "y"}
ViewPaths == {"x"}
ViewBase == "a"
Join(basePath, path) == basePath \o "/" \o path
Keys == Paths \cup {Join(ViewBase, q) : q \in ViewPaths}

VARIABLES
  vecs,      \* GoogleVector adapters: _vec, _isDisposed
  prims,     \* collaborative lists: contents and registered event listeners
  emitted,   \* what the listeners of each adapter's `changed` received in the last step
  last,      \* the last call made: its name, arguments and the contents before it
  vals,      \* ObservableValue objects: value, listeners of `changed`
  maps,      \* GoogleMap adapters over a model's root: listeners of `changed`
  roots,     \* the root collaborative map of each model
  localDB,   \* _localDB of each store
  disposables, \* _disposables of each store
  kind,      \* how the root store was constructed
  phase,     \* where the resource resolution and document load stand
  doc,       \* _doc of each store
  model,     \* _model of each store
  db,        \* _db of each store: the model whose root its GoogleMap wraps
  isPrepopulated, \* _isPrepopulated of the root store
  connected, \* whether _connected was resolved
  error,     \* whether the last step ended in an uncaught TypeError
  viewMade,  \* whether view(ViewBase) was called on the root store
  hist,      \* per store: whether dispose() was called, what createX returned
  calls,     \* number of calls made on the store and its containers
  writes,    \* number of changes the last step made to collaborative lists
  bridge     \* what the listeners of set() did in the last step

vars == <<vecs, prims, emitted, last, vals, maps, roots, localDB,
          disposables, kind, phase, doc, model, db, isPrepopulated, connected,
          error, viewMade, hist, calls, writes, bridge>>

\* ------------------------------------------------- the collaborative list
At(s, i) == s[i + 1]
InsertSeq(s, i, xs) == SubSeq(s, 1, i) \o xs \o SubSeq(s, i + 1, Len(s))
RemoveSeq(s, i, n) == SubSeq(s, 1, i) \o SubSeq(s, i + n + 1, Len(s))
ListInsert(s, i, x) == InsertSeq(s, i, <<x>>)
ListRemove(s, i) == RemoveSeq(s, i, 1)
ListSet(s, i, x) == [s EXCEPT ![i + 1] = x]
\* CollaborativeList.move(i, d): the element lands immediately before the
\* element that had index d before the move.
ListMove(s, i, d) ==
  ListInsert(ListRemove(s, i), IF d > i THEN d - 1 ELSE d, At(s, i))

\* Private.itemCmp: strict equality.
itemCmp(first, second) == first = second

\* CollaborativeList.indexOf(value, cmp): first matching index, or -1.
ListIndexOf(s, x) ==
  IF \E k \in 1..Len(s) : itemCmp(s[k], x)
  THEN (CHOOSE k \in 1..Len(s) :
          itemCmp(s[k], x) /\ \A m \in 1..(k - 1) : ~itemCmp(s[m], x)) - 1
  ELSE -1

\* An event of the collaborative list, as handed to its listeners.
PEvt(type, isLocal, index, values, oldValues, newValues) ==
  [type |-> type, isLocal |-> isLocal, index |-> index, values |-> values,
   oldValues |-> oldValues, newValues |-> newValues]

\* The argument of a `changed` emission (ObservableVector.IChangedArgs).
Ev(type, oldIndex, newIndex, oldValues, newValues) ==
  [type |-> type, oldIndex |-> oldIndex, newIndex |-> newIndex,
   oldValues |-> oldValues, newValues |-> newValues]

\* ------------------------------------- GoogleVector: the event listeners
\* Each returns the emissions the listener makes for one event.
OnValuesAddedEcho(evt) ==
  <<Ev("add", -1, evt.index, <<>>, evt.values)>>
OnValuesAdded(evt) ==
  IF ~evt.isLocal
  THEN <<Ev("add", -1, evt.index, <<>>, evt.values)>>
  ELSE <<>>

OnValuesRemoved(evt) ==
  IF ~evt.isLocal
  THEN <<Ev("remove", evt.index, -1, evt.values, <<>>)>>
  ELSE <<>>

OnValuesSet(evt) ==
  IF ~evt.isLocal
  THEN <<Ev("set", evt.index, evt.index, evt.oldValues, evt.newValues)>>
  ELSE <<>>

Handle(evt) ==
  CASE evt.type = "values_added" -> OnValuesAdded(evt)
    [] evt.type = "values_removed" -> OnValuesRemoved(evt)
    [] evt.type = "values_set" -> OnValuesSet(evt)

\* How many times each adapter registered its listeners on a list.
NoListeners == [w \in VecIds |-> 0]

\* ---------------------------------------------------------------- heap
\* The operations below are functions of a heap H = [vecs, prims, emitted].
\* Signal.emit on the adapter's `changed`: nothing is connected once
\* Signal.clearData ran (dispose).
Emit(H, v, e) ==
  IF H.vecs[v].isDisposed THEN H
  ELSE [H EXCEPT !.emitted[v] = Append(@, e)]

RECURSIVE Times(_, _)
Times(es, n) == IF n = 0 THEN <<>> ELSE es \o Times(es, n - 1)

\* The list p fires evt: an adapter's listener for the event's type runs
\* once for every time the adapter registered its listeners on p.
Fire(H, p, evt) ==
  [H EXCEPT !.emitted =
     [w \in VecIds |->
        IF ~H.vecs[w].isDisposed
        THEN H.emitted[w] \o Times(Handle(evt), H.prims[p].listeners[w])
        ELSE H.emitted[w]]]

\* A change of the list p: insert, remove, set or move.
Wrote(H) == [H EXCEPT !.writes = @ + 1]

PrimInsert(H, p, i, xs, isLocal) ==
  IF xs = <<>> THEN H
  ELSE Fire(Wrote([H EXCEPT !.prims[p].items = InsertSeq(@, i, xs)]), p,
            PEvt("values_added", isLocal, i, xs, <<>>, <<>>))

PrimRemove(H, p, i, n, isLocal) ==
  IF n = 0 THEN H
  ELSE Fire(Wrote([H EXCEPT !.prims[p].items = RemoveSeq(@, i, n)]), p,
            PEvt("values_removed", isLocal, i,
                 SubSeq(H.prims[p].items, i + 1, i + n), <<>>, <<>>))

PrimSet(H, p, i, x, isLocal) ==
  Fire(Wrote([H EXCEPT !.prims[p].items = ListSet(@, i, x)]), p,
       PEvt("values_set", isLocal, i, <<>>,
            <<At(H.prims[p].items, i)>>, <<x>>))

\* A move reaches the listeners as a removal followed by an addition.
PrimMove(H, p, i, d, isLocal) ==
  LET x == At(H.prims[p].items, i)
      H1 == Fire(H, p, PEvt("values_removed", isLocal, i, <<x>>, <<>>, <<>>))
  IN Fire(Wrote([H1 EXCEPT !.prims[p].items = ListMove(@, i, d)]), p,
          PEvt("values_added", isLocal, IF d > i THEN d - 1 ELSE d,
               <<x>>, <<>>, <<>>))

asArray(H, v) == H.prims[H.vecs[v].vec].items
length(H, v) == Len(asArray(H, v))

\* ------------------------------------------------ GoogleVector: methods
\* set() that writes the value before it compares.
VectorSetWritesFirst(H, v, index, value) ==
  LET oldVal == At(asArray(H, v), index)
      H1 == PrimSet(H, H.vecs[v].vec, index, value, TRUE)
  IN IF itemCmp(oldVal, value) THEN H1
     ELSE Emit(H1, v, Ev("set", index, index, <<oldVal>>, <<value>>))

VectorSet(H, v, index, value) ==
  LET oldVal == At(asArray(H, v), index) IN
  IF itemCmp(oldVal, value) THEN H
  ELSE Emit(PrimSet(H, H.vecs[v].vec, index, value, TRUE), v,
            Ev("set", index, index, <<oldVal>>, <<value>>))

pushBack(H, v, value) ==
  LET H1 == PrimInsert(H, H.vecs[v].vec, length(H, v), <<value>>, TRUE)
  IN Emit(H1, v, Ev("add", -1, length(H1, v) - 1, <<>>, <<value>>))

popBack(H, v) ==
  LET lst == length(H, v) - 1
      value == At(asArray(H, v), lst)
      H1 == PrimRemove(H, H.vecs[v].vec, lst, 1, TRUE)
  IN Emit(H1, v, Ev("remove", length(H1, v), -1, <<value>>, <<>>))

insert(H, v, index, value) ==
  Emit(PrimInsert(H, H.vecs[v].vec, index, <<value>>, TRUE), v,
       Ev("add", -1, index, <<>>, <<value>>))

removeAt(H, v, index) ==
  LET value == At(asArray(H, v), index)
  IN Emit(PrimRemove(H, H.vecs[v].vec, index, 1, TRUE), v,
          Ev("remove", index, -1, <<value>>, <<>>))

\* What the list does with an index outside it.
OutOfRange == {"throws", "ignores"}
Undefined == "undefined"

\* removeAt(index) with index outside the list: at(index) and
\* _vec.remove(index) either raise or yield undefined and remove nothing; in
\* the second case the emission follows.
removeAtOutside(H, v, index, lib) ==
  IF lib = "throws" THEN [H EXCEPT !.error = TRUE]
  ELSE Emit(H, v, Ev("remove", index, -1, <<Undefined>>, <<>>))

remove(H, v, value, lib) ==
  LET index == ListIndexOf(asArray(H, v), value)
  IN IF index \in 0..(length(H, v) - 1)
     THEN removeAt(H, v, index)
     ELSE removeAtOutside(H, v, index, lib)

\* The number remove returns.
removeReturn(H, v, value) == ListIndexOf(asArray(H, v), value)

clear(H, v) ==
  LET oldValues == asArray(H, v)
  IN Emit(PrimRemove(H, H.vecs[v].vec, 0, Len(oldValues), TRUE), v,
          Ev("remove", 0, 0, oldValues, <<>>))

moveNoAdjust(H, v, fromIndex, toIndex) ==
  IF length(H, v) = 1 \/ fromIndex = toIndex THEN H
  ELSE LET value == At(asArray(H, v), fromIndex)
       IN Emit(PrimMove(H, H.vecs[v].vec, fromIndex, toIndex, TRUE), v,
               Ev("move", fromIndex, toIndex, <<value>>, <<value>>))
move(H, v, fromIndex, toIndex) ==
  IF length(H, v) = 1 \/ fromIndex = toIndex THEN H
  ELSE LET value == At(asArray(H, v), fromIndex)
           H1 == IF fromIndex < toIndex
                 THEN PrimMove(H, H.vecs[v].vec, fromIndex, toIndex + 1, TRUE)
                 ELSE PrimMove(H, H.vecs[v].vec, fromIndex, toIndex, TRUE)
       IN Emit(H1, v, Ev("move", fromIndex, toIndex, <<value>>, <<value>>))

RECURSIVE PushEach(_, _, _)
PushEach(H, p, values) ==
  IF values = <<>> THEN H
  ELSE PushEach(PrimInsert(H, p, Len(H.prims[p].items), <<Head(values)>>, TRUE),
                p, Tail(values))

pushAll(H, v, values) ==
  LET newIndex == length(H, v)
  IN Emit(PushEach(H, H.vecs[v].vec, values), v,
          Ev("add", -1, newIndex, <<>>, values))

\* The number pushAll returns: this.length after the loop.
pushAllReturn(H, v, values) == length(pushAll(H, v, values), v)

\* The loop of insertAll without its i++.
RECURSIVE InsertEachNoAdvance(_, _, _, _)
InsertEachNoAdvance(H, p, i, values) ==
  IF values = <<>> THEN H
  ELSE InsertEachNoAdvance(PrimInsert(H, p, i, <<Head(values)>>, TRUE),
                           p, i, Tail(values))

RECURSIVE InsertEach(_, _, _, _)
InsertEach(H, p, i, values) ==
  IF values = <<>> THEN H
  ELSE InsertEach(PrimInsert(H, p, i, <<Head(values)>>, TRUE),
                  p, i + 1, Tail(values))

insertAll(H, v, index, values) ==
  Emit(InsertEach(H, H.vecs[v].vec, index, values), v,
       Ev("add", -1, index, <<>>, values))

\* The number insertAll returns: this.length after the loop.
insertAllReturn(H, v, index, values) == length(insertAll(H, v, index, values), v)

\* The loop of removeRange putting each value in front of oldValues.
RECURSIVE RemoveEachReversed(_, _, _, _, _, _)
RemoveEachReversed(H, p, startIndex, i, endIndex, oldValues) ==
  IF i < endIndex
  THEN RemoveEachReversed(PrimRemove(H, p, startIndex, 1, TRUE), p, startIndex,
                          i + 1, endIndex,
                          <<At(H.prims[p].items, startIndex)>> \o oldValues)
  ELSE <<H, oldValues>>

\* The loop of removeRange: [heap, oldValues] after the iterations i..endIndex-1.
RECURSIVE RemoveEach(_, _, _, _, _, _)
RemoveEach(H, p, startIndex, i, endIndex, oldValues) ==
  IF i < endIndex
  THEN RemoveEach(PrimRemove(H, p, startIndex, 1, TRUE), p, startIndex, i + 1,
                  endIndex, Append(oldValues, At(H.prims[p].items, startIndex)))
  ELSE <<H, oldValues>>

removeRange(H, v, startIndex, endIndex) ==
  LET r == RemoveEach(H, H.vecs[v].vec, startIndex, startIndex, endIndex, <<>>)
  IN Emit(r[1], v, Ev("remove", startIndex, -1, r[2], <<>>))

\* CollaborativeList.removeAllEventListeners
RemoveAllEventListeners(H, p) == [H EXCEPT !.prims[p].listeners = NoListeners]

VectorDispose(H, v) ==
  IF H.vecs[v].isDisposed THEN H
  ELSE [RemoveAllEventListeners(H, H.vecs[v].vec)
          EXCEPT !.vecs[v].isDisposed = TRUE]

\* The loop of the googleObject setter, from iteration i on.
RECURSIVE CopyLoop(_, _, _, _)
CopyLoop(H, v, vec, i) ==
  IF i < Len(H.prims[vec].items)
  THEN CopyLoop(RemoveAllEventListeners(
                  pushBack(H, v, At(H.prims[vec].items, i)), H.vecs[v].vec),
                v, vec, i + 1)
  ELSE H

\* The setter with its loop started at index 1.
setGoogleObjectFromOne(H, v, vec) ==
  LET H1 == IF H.vecs[v].vec # NoPrim
            THEN CopyLoop(clear(H, v), v, vec, 1)
            ELSE H
  IN [H1 EXCEPT !.vecs[v].vec = vec,
                !.prims[vec].listeners[v] = @ + 1]

\* set googleObject(vec)
setGoogleObject(H, v, vec) ==
  LET H1 == IF H.vecs[v].vec # NoPrim
            THEN CopyLoop(clear(H, v), v, vec, 0)
            ELSE H
  IN [H1 EXCEPT !.vecs[v].vec = vec,
                !.prims[vec].listeners[v] = @ + 1]

\* new GoogleVector(vector)
NewVector(H, v, vector) ==
  setGoogleObject(
    [H EXCEPT !.vecs[v] = [made |-> TRUE, vec |-> NoPrim, isDisposed |-> FALSE]],
    v, vector)

\* ------------------------------------------------- values stored in a root
NoEntry == [t |-> "none", v |-> ""]
Scalar(x) == [t |-> "val", v |-> x]
ListRef(p) == [t |-> "list", v |-> p]
\* entries of _localDB
NoAdapter == [t |-> "none", id |-> ""]
VecRef(v) == [t |-> "vec", id |-> v]
ValRef(o) == [t |-> "val", id |-> o]

EmptyRoot == [k \in Keys |-> NoEntry]
MapHas(W, m, key) == W.roots[m][key].t # "none"
MapGet(W, m, key) == W.roots[m][key]
MapKeys(W, m) == {k \in Keys : MapHas(W, m, k)}

FreePrims(W) == {k \in 1..Len(PrimOrder) : ~W.prims[PrimOrder[k]].made}
FreshPrim(W) == PrimOrder[CHOOSE k \in FreePrims(W) : \A j \in FreePrims(W) : k <= j]

\* model.createList(items)
CreateList(W, p, m, items) ==
  [W EXCEPT !.prims[p] = [made |-> TRUE, model |-> m, items |-> items,
                           listeners |-> NoListeners]]

\* --------------------------------- ObservableValue, GoogleMap, the bridge
RECURSIVE ValueSet(_, _, _)
RECURSIVE ValueEmit(_, _, _, _)
RECURSIVE MapSet(_, _, _, _)
RECURSIVE MapEmit(_, _, _, _, _)

\* The count of a step's listener invocations, of the root writes the
\* listeners issued at each key and of the value.set calls they made on each
\* value.
NoBridge ==
  [invoked |-> 0, rootWrites |-> [k \in Keys |-> 0], valueSets |-> [o \in ValIds |-> 0]]
Invoked(W) == [W EXCEPT !.bridge.invoked = @ + 1]
RootWritten(W, key) == [W EXCEPT !.bridge.rootWrites[key] = @ + 1]
ValueWritten(W, o) == [W EXCEPT !.bridge.valueSets[o] = @ + 1]

\* The listener of value.changed without its comparison.
ValueChangedSlotUnguarded(W, path, newValue) ==
  IF W.db["root"] = "null" THEN Invoked(W)
  ELSE MapSet(RootWritten(Invoked(W), path), W.db["root"], path, newValue)

\* The listener set() connects to value.changed.
ValueChangedSlot(W, path, newValue) ==
  IF W.db["root"] = "null" THEN Invoked(W)
  ELSE IF newValue # MapGet(W, W.db["root"], path)
       THEN MapSet(RootWritten(Invoked(W), path), W.db["root"], path, newValue)
       ELSE Invoked(W)

\* The listener set() connects to this._db.changed.
DbChangedSlot(W, path, o, key, newValue) ==
  IF key = path /\ newValue # W.vals[o].value
  THEN ValueSet(ValueWritten(Invoked(W), o), o, newValue)
  ELSE Invoked(W)

ValueEmit(W, slots, newValue, k) ==
  IF k > Len(slots) THEN W
  ELSE ValueEmit(ValueChangedSlot(W, slots[k], newValue), slots, newValue, k + 1)

\* ObservableValue.set
ValueSet(W, o, x) ==
  IF W.vals[o].value = x THEN W
  ELSE ValueEmit([W EXCEPT !.vals[o].value = x], W.vals[o].slots, x, 1)

MapEmit(W, slots, key, newValue, k) ==
  IF k > Len(slots) THEN W
  ELSE MapEmit(DbChangedSlot(W, slots[k].path, slots[k].val, key, newValue),
               slots, key, newValue, k + 1)

\* GoogleMap.set
MapSet(W, m, key, x) ==
  IF W.roots[m][key] = x THEN W
  ELSE MapEmit([W EXCEPT !.roots[m][key] = x], W.maps[m].slots, key, x, 1)

\* ObservableValue.dispose
ValueDispose(W, o) ==
  [W EXCEPT !.vals[o].isDisposed = TRUE, !.vals[o].slots = <<>>]

\* GoogleMap.dispose
MapDispose(W, m) ==
  [W EXCEPT !.maps[m].isDisposed = TRUE, !.maps[m].slots = <<>>]

\* new GoogleMap(model.getRoot())
NewMap(W, m) ==
  [W EXCEPT !.maps[m] = [made |-> TRUE, isDisposed |-> FALSE, slots |-> <<>>]]

\* ------------------------------------------------------------ GoogleModelDB
IsView(s) == s = "view"

\* get model(): a view answers with its base's
ModelOf(W, s) == W.model["root"]

\* get isPrepopulated(), get connected(): a view answers with its base's
isPrepopulatedOf(W, s) == W.isPrepopulated
connectedOf(W, s) == W.connected

isDisposed(W, s) == W.doc[s] = "null"

\* An uncaught TypeError; one raised in the load callback ends the callback.
Throw(W) == [W EXCEPT !.error = TRUE]
Crash(W) == [Throw(W) EXCEPT !.phase = "crashed"]

get(W, s, path) == W.localDB[s][path]

getGoogleObject(W, s, path) ==
  IF IsView(s)
  THEN MapGet(W, W.db["root"], Join(ViewBase, path))
  ELSE MapGet(W, W.db["root"], path)

has(W, s, path) ==
  IF IsView(s)
  THEN MapHas(W, W.db["root"], Join(ViewBase, path))
  ELSE MapHas(W, W.db["root"], path)

\* set(path, value) on the root store, after _localDB.set
RootSet(W, path, value) ==
  IF value.t = "vec"
  THEN IF W.db["root"] = "null" THEN Throw(W)
       ELSE MapSet(W, W.db["root"], path, ListRef(W.vecs[value.id].vec))
  ELSE LET o == value.id
           toSet == W.vals[o].value
           W1 == [W EXCEPT !.vals[o].slots = Append(@, path)]
       IN IF W.db["root"] = "null" THEN Throw(W1)
          ELSE MapSet([W1 EXCEPT !.maps[W.db["root"]].slots =
                                    Append(@, [path |-> path, val |-> o])],
                      W.db["root"], path, toSet)

\* set() of a view handing the base the path without the view's prefix.
ModelDBSetNoPrefix(W, s, path, value) ==
  RootSet([W EXCEPT !.localDB[s][path] = value, !.localDB["root"][path] = value],
          path, value)

ModelDBSet(W, s, path, value) ==
  LET W1 == [W EXCEPT !.localDB[s][path] = value]
  IN IF IsView(s)
     THEN RootSet([W1 EXCEPT !.localDB["root"][Join(ViewBase, path)] = value],
                  Join(ViewBase, path), value)
     ELSE RootSet(W1, path, value)

FreeVecs(W) == {v \in VecIds : ~W.vecs[v].made}
FreshVec(W) == IF ~W.vecs["v1"].made THEN "v1" ELSE "v2"
FreeVals(W) == {o \in ValIds : ~W.vals[o].made}
FreshVal(W) == IF ~W.vals["o1"].made THEN "o1" ELSE "o2"

\* new ObservableValue(x)
NewValue(W, o, x) ==
  [W EXCEPT !.vals[o] = [made |-> TRUE, value |-> x, isDisposed |-> FALSE,
                         slots |-> <<>>]]

\* _disposables.add(item)
Register(W, s, id) == [W EXCEPT !.disposables[s].items = @ \cup {id}]

\* createVector that never looks at has(path)
createVectorNoAdopt(W, s, path) ==
  LET v == FreshVec(W)
      p == FreshPrim(W)
      W1 == CreateList(W, p, ModelOf(W, s), <<>>)
      W2 == NewVector(W1, v, p)
  IN ModelDBSet(Register(W2, s, v), s, path, VecRef(v))

createVector(W, s, path) ==
  LET v == FreshVec(W)
      adopt == has(W, s, path)
      p == IF adopt THEN getGoogleObject(W, s, path).v ELSE FreshPrim(W)
      W1 == IF adopt THEN W ELSE CreateList(W, p, ModelOf(W, s), <<>>)
      W2 == NewVector(W1, v, p)
  IN ModelDBSet(Register(W2, s, v), s, path, VecRef(v))

createValue(W, s, path) ==
  LET o == FreshVal(W)
      val == IF has(W, s, path) THEN getGoogleObject(W, s, path) ELSE Scalar("")
  IN ModelDBSet(Register(NewValue(W, o, val), s, o), s, path, ValRef(o))

\* DisposableSet.dispose over the registered vectors and values
RECURSIVE DisposeItems(_, _)
DisposeItems(W, ids) ==
  IF ids = {} THEN W
  ELSE LET id == CHOOSE x \in ids : TRUE
       IN DisposeItems(IF id \in VecIds THEN VectorDispose(W, id)
                       ELSE ValueDispose(W, id), ids \ {id})

DisposablesDispose(W, s) ==
  IF W.disposables[s].isDisposed THEN W
  ELSE [DisposeItems(W, W.disposables[s].items)
          EXCEPT !.disposables[s] = [items |-> {}, isDisposed |-> TRUE]]

\* dispose() without its guards: db.dispose() on a null _db raises.
ModelDBDisposeUnguarded(W, s) ==
  LET d == W.db[s]
      W1 == [W EXCEPT !.db[s] = "null", !.doc[s] = "null", !.model[s] = "null"]
  IN IF d = "null" THEN Throw(W1)
     ELSE DisposablesDispose(MapDispose(W1, d), s)

ModelDBDispose(W, s) ==
  IF isDisposed(W, s) THEN W
  ELSE LET d == W.db[s]
           W1 == [W EXCEPT !.db[s] = "null", !.doc[s] = "null", !.model[s] = "null"]
           W2 == IF d # "null" THEN MapDispose(W1, d) ELSE W1
       IN DisposablesDispose(W2, s)

\* ------------------------ the callback of loadRealtimeDocument (Bound)
\* One iteration of the loop over oldDB.keys().
\* The key is not in the loaded root and the local object is a vector.
ReconcileNewVector(W, key, val) ==
  LET newVal == FreshPrim(W)
      W1 == CreateList(W, newVal, W.model["root"], asArray(W, val.id))
      W2 == setGoogleObject(W1, val.id, newVal)
  IN MapSet(W2, W.db["root"], key, ListRef(newVal))

\* The branch for a value whose key the loaded root lacks, left out.
ReconcileNewValueSkipped(W, key, val) == W

\* The key is not in the loaded root and the local object is a value.
ReconcileNewValue(W, key, val) == ModelDBSet(W, "root", key, val)

ReconcileKey(W, key) ==
  LET val == W.localDB["root"][key] IN
  IF val.t = "none" THEN Crash(W)
  ELSE IF MapHas(W, W.db["root"], key)
  THEN LET gval == MapGet(W, W.db["root"], key) IN
       IF val.t = "vec"
       THEN IF gval.t = "list"
            THEN setGoogleObject(W, val.id, gval.v)
            ELSE Crash(clear(W, val.id))
       ELSE W
  ELSE IF val.t = "vec"
       THEN ReconcileNewVector(W, key, val)
       ELSE ReconcileNewValue(W, key, val)

RECURSIVE ReconcileAll(_, _)
ReconcileAll(W, keys) ==
  IF keys = <<>> \/ W.phase = "crashed" THEN W
  ELSE ReconcileAll(ReconcileKey(W, Head(keys)), Tail(keys))

\* The callback with isPrepopulated computed after the loop over the keys.
OnDocumentLoadedLate(W, keys) ==
  LET oldDB == W.db["root"]
      W1 == [W EXCEPT !.doc["root"] = "auth", !.model["root"] = "auth",
                      !.db["root"] = "auth"]
      W2 == NewMap(W1, "auth")
  IN IF oldDB = "null" THEN Crash(W2)
     ELSE LET W3 == ReconcileAll(W2, keys)
              W4 == [W3 EXCEPT !.isPrepopulated = (@ \/ MapKeys(W3, "auth") # {})]
          IN IF W4.phase = "crashed" THEN W4
             ELSE [W4 EXCEPT !.connected = TRUE, !.phase = "bound"]

\* The callback with _connected resolved before the loop over the keys.
OnDocumentLoadedEarly(W, keys) ==
  LET oldDB == W.db["root"]
      W1 == [W EXCEPT !.doc["root"] = "auth", !.model["root"] = "auth",
                      !.isPrepopulated = (@ \/ MapKeys(W, "auth") # {}),
                      !.db["root"] = "auth", !.connected = TRUE]
      W2 == NewMap(W1, "auth")
  IN IF oldDB = "null" THEN Crash(W2)
     ELSE LET W3 == ReconcileAll(W2, keys)
          IN IF W3.phase = "crashed" THEN W3
             ELSE [W3 EXCEPT !.phase = "bound"]

\* keys is oldDB.keys() in the order the map yields them.
OnDocumentLoaded(W, keys) ==
  LET oldDB == W.db["root"]
      W1 == [W EXCEPT !.doc["root"] = "auth", !.model["root"] = "auth",
                      !.isPrepopulated = (@ \/ MapKeys(W, "auth") # {}),
                      !.db["root"] = "auth"]
      W2 == NewMap(W1, "auth")
  IN IF oldDB = "null" THEN Crash(W2)
     ELSE LET W3 == ReconcileAll(W2, keys)
          IN IF W3.phase = "crashed" THEN W3
             ELSE [W3 EXCEPT !.connected = TRUE, !.phase = "bound"]

\* ------------------------------------------------------------- actions
NoEmissions == [w \in VecIds |-> <<>>]

\* The state as one record; every step starts with an empty emission log.
World ==
  [vecs |-> vecs, prims |-> prims, emitted |-> NoEmissions, vals |-> vals,
   maps |-> maps, roots |-> roots, localDB |-> localDB,
   disposables |-> disposables, phase |-> phase, doc |-> doc, model |-> model,
   db |-> db, isPrepopulated |-> isPrepopulated, connected |-> connected,
   error |-> FALSE, writes |-> 0, bridge |-> NoBridge]

Call(op, who, path, i, j, xs, before) ==
  [op |-> op, who |-> who, path |-> path, i |-> i, j |-> j, vals |-> xs,
   before |-> before]

Commit(W, call) ==
  /\ vecs' = W.vecs
  /\ prims' = W.prims
  /\ emitted' = W.emitted
  /\ vals' = W.vals
  /\ maps' = W.maps
  /\ roots' = W.roots
  /\ localDB' = W.localDB
  /\ disposables' = W.disposables
  /\ phase' = W.phase
  /\ doc' = W.doc
  /\ model' = W.model
  /\ db' = W.db
  /\ isPrepopulated' = W.isPrepopulated
  /\ connected' = W.connected
  /\ error' = W.error
  /\ writes' = W.writes
  /\ bridge' = W.bridge
  /\ last' = call
  /\ UNCHANGED kind

\* A call made by the application counts against the budget of a store run.
Budget == kind = "none" \/ calls < MaxCalls
Spend == calls' = IF kind = "none" THEN calls ELSE calls + 1

Made == {v \in VecIds : vecs[v].made}
\* The vectors a caller still uses: dispose() ends the use of a vector.
Live == {v \in Made : ~vecs[v].isDisposed}
\* 1 when the call about to be made repeats the dispose() just made on who.
Repeated(who) == IF last.op = "dispose" /\ last.who = who THEN 1 ELSE 0
Contents(v) == prims[vecs[v].vec].items
Indices(v) == 0..(Len(Contents(v)) - 1)

\* --- calls on a GoogleVector
Set(v, i, x) ==
  /\ Budget
  /\ v \in Live /\ i \in Indices(v)
  /\ Commit(VectorSet(World, v, i, x), Call("set", v, "", i, 0, <<x>>, Contents(v)))
  /\ Spend
  /\ UNCHANGED <<viewMade, hist>>

\* The lists of a store's document are kept shorter than a list on its own.
LenBound ==
  IF kind = "none" THEN MaxLen
  ELSE IF kind = "rebind" THEN MaxStoreLen + 1 ELSE MaxStoreLen

PushBack(v, x) ==
  /\ Budget
  /\ v \in Live /\ Len(Contents(v)) < LenBound
  /\ Commit(pushBack(World, v, x), Call("pushBack", v, "", 0, 0, <<x>>, Contents(v)))
  /\ Spend
  /\ UNCHANGED <<viewMade, hist>>

PopBack(v) ==
  /\ Budget
  /\ v \in Live /\ Len(Contents(v)) > 0
  /\ Commit(popBack(World, v), Call("popBack", v, "", 0, 0, <<>>, Contents(v)))
  /\ Spend
  /\ UNCHANGED <<viewMade, hist>>

Insert(v, i, x) ==
  /\ Budget
  /\ v \in Live /\ Len(Contents(v)) < MaxLen /\ i \in 0..Len(Contents(v))
  /\ Commit(insert(World, v, i, x), Call("insert", v, "", i, 0, <<x>>, Contents(v)))
  /\ Spend
  /\ UNCHANGED <<viewMade, hist>>

RemoveAt(v, i) ==
  /\ Budget
  /\ v \in Live /\ i \in Indices(v)
  /\ Commit(removeAt(World, v, i), Call("removeAt", v, "", i, 0, <<>>, Contents(v)))
  /\ Spend
  /\ UNCHANGED <<viewMade, hist>>

Remove(v, x, lib) ==
  /\ Budget
  /\ v \in Live
  /\ lib = "throws" => ListIndexOf(Contents(v), x) = -1
  /\ Commit(remove(World, v, x, lib), Call("remove", v, "", 0, 0, <<x>>, Contents(v)))
  /\ Spend
  /\ UNCHANGED <<viewMade, hist>>

Clear(v) ==
  /\ Budget
  /\ v \in Live
  /\ Commit(clear(World, v), Call("clear", v, "", 0, 0, <<>>, Contents(v)))
  /\ Spend
  /\ UNCHANGED <<viewMade, hist>>

Move(v, i, j) ==
  /\ Budget
  /\ v \in Live /\ i \in Indices(v) /\ j \in Indices(v)
  /\ Commit(move(World, v, i, j), Call("move", v, "", i, j, <<>>, Contents(v)))
  /\ Spend
  /\ UNCHANGED <<viewMade, hist>>

PushAll(v, xs) ==
  /\ Budget
  /\ v \in Live /\ Len(Contents(v)) + Len(xs) <= MaxLen
  /\ Commit(pushAll(World, v, xs), Call("pushAll", v, "", 0, 0, xs, Contents(v)))
  /\ Spend
  /\ UNCHANGED <<viewMade, hist>>

InsertAll(v, i, xs) ==
  /\ Budget
  /\ v \in Live /\ Len(Contents(v)) + Len(xs) <= MaxLen
  /\ i \in 0..Len(Contents(v))
  /\ Commit(insertAll(World, v, i, xs), Call("insertAll", v, "", i, 0, xs, Contents(v)))
  /\ Spend
  /\ UNCHANGED <<viewMade, hist>>

RemoveRange(v, i, j) ==
  /\ Budget
  /\ v \in Live /\ i \in 0..Len(Contents(v)) /\ j \in i..Len(Contents(v))
  /\ Commit(removeRange(World, v, i, j), Call("removeRange", v, "", i, j, <<>>, Contents(v)))
  /\ Spend
  /\ UNCHANGED <<viewMade, hist>>

DisposeVector(v) ==
  /\ Budget
  /\ v \in Made
  /\ Commit(VectorDispose(World, v), Call("dispose", v, "", Repeated(v), 0, <<>>, Contents(v)))
  /\ Spend
  /\ UNCHANGED <<viewMade, hist>>

PrimIndex(p) == CHOOSE k \in 1..Len(PrimOrder) : PrimOrder[k] = p

\* vector.googleObject = p; the call records p and the index of the list
\* the vector wrapped.
Rebind(v, p) ==
  /\ Budget
  /\ v \in Made /\ prims[p].made
  /\ Commit(setGoogleObject(World, v, p),
            Call("rebind", v, p, PrimIndex(vecs[v].vec), 0, prims[p].items,
                 Contents(v)))
  /\ Spend
  /\ UNCHANGED <<viewMade, hist>>

\* --- another participant changes a list
RemoteInsert(p, i, xs) ==
  /\ prims[p].made /\ prims[p].model = "auth" /\ xs # <<>>
  /\ Len(prims[p].items) + Len(xs) <= LenBound /\ i \in 0..Len(prims[p].items)
  /\ Commit(PrimInsert(World, p, i, xs, FALSE),
            Call("remoteInsert", p, "", i, 0, xs, prims[p].items))
  /\ UNCHANGED <<viewMade, hist, calls>>

RemoteRemove(p, i, n) ==
  /\ prims[p].made /\ prims[p].model = "auth"
  /\ i \in 0..(Len(prims[p].items) - 1) /\ n \in 1..(Len(prims[p].items) - i)
  /\ Commit(PrimRemove(World, p, i, n, FALSE),
            Call("remoteRemove", p, "", i, n, <<>>, prims[p].items))
  /\ UNCHANGED <<viewMade, hist, calls>>

RemoteSet(p, i, x) ==
  /\ prims[p].made /\ prims[p].model = "auth"
  /\ i \in 0..(Len(prims[p].items) - 1)
  /\ Commit(PrimSet(World, p, i, x, FALSE),
            Call("remoteSet", p, "", i, 0, <<x>>, prims[p].items))
  /\ UNCHANGED <<viewMade, hist, calls>>

\* ------------------------------------------------------ initial states
NoVec == [made |-> FALSE, vec |-> NoPrim, isDisposed |-> FALSE]
NoList == [made |-> FALSE, model |-> "mem", items |-> <<>>, listeners |-> NoListeners]
NoValue == [made |-> FALSE, value |-> NoEntry, isDisposed |-> FALSE, slots |-> <<>>]
NoMap == [made |-> FALSE, isDisposed |-> FALSE, slots |-> <<>>]
NoDisposables == [items |-> {}, isDisposed |-> FALSE]
Blank ==
  [vecs |-> [v \in VecIds |-> NoVec], prims |-> [p \in PrimIds |-> NoList],
   emitted |-> NoEmissions, vals |-> [o \in ValIds |-> NoValue],
   maps |-> [m \in ModelIds |-> NoMap], roots |-> [m \in ModelIds |-> EmptyRoot],
   localDB |-> [s \in StoreIds |-> [k \in Keys |-> NoAdapter]],
   disposables |-> [s \in StoreIds |-> NoDisposables],
   phase |-> "none", doc |-> [s \in StoreIds |-> "null"],
   model |-> [s \in StoreIds |-> "null"], db |-> [s \in StoreIds |-> "null"],
   isPrepopulated |-> FALSE, connected |-> FALSE, error |-> FALSE, writes |-> 0,
   bridge |-> NoBridge]

StartFrom(W) ==
  /\ vecs = W.vecs
  /\ prims = W.prims
  /\ emitted = NoEmissions
  /\ vals = W.vals
  /\ maps = W.maps
  /\ roots = W.roots
  /\ localDB = W.localDB
  /\ disposables = W.disposables
  /\ phase = W.phase
  /\ doc = W.doc
  /\ model = W.model
  /\ db = W.db
  /\ isPrepopulated = W.isPrepopulated
  /\ connected = W.connected
  /\ error = FALSE
  /\ writes = 0
  /\ bridge = NoBridge
  /\ last = Call("new", "", "", 0, 0, <<>>, <<>>)
  /\ viewMade = FALSE
  /\ hist = [s \in StoreIds |-> [disposeCalled |-> FALSE, created |-> {}]]
  /\ calls = 0

SeqsUpTo(n) == UNION {[1..k -> Items] : k \in 0..n}

\* One or two adapters constructed over the same list of a loaded document.
VecInit ==
  \E items \in SeqsUpTo(MaxLen), two \in BOOLEAN :
    LET W1 == CreateList(Blank, "p1", "auth", items)
        W2 == NewVector(W1, "v1", "p1")
        W3 == IF two THEN NewVector(W2, "v2", "p1") ELSE W2
    IN /\ StartFrom(W3)
       /\ kind = "none"

\* --- calls on a GoogleModelDB
StoreMade(s) == IsView(s) => viewMade
PathsOf(s) == IF IsView(s) THEN ViewPaths ELSE Paths
StoreCall(op, s, path) == Call(op, s, path, 0, 0, <<>>, <<>>)

CreateVector(s, path) ==
  /\ Budget
  /\ StoreMade(s) /\ path \in PathsOf(s) /\ db["root"] # "null" /\ FreeVecs(World) # {}
  /\ IF has(World, s, path)
     THEN getGoogleObject(World, s, path).t = "list"
     ELSE FreePrims(World) # {}
  /\ Commit(createVector(World, s, path), StoreCall("createVector", s, path))
  /\ hist' = [hist EXCEPT ![s].created = @ \cup {FreshVec(World)}]
  /\ Spend
  /\ UNCHANGED viewMade

CreateValue(s, path) ==
  /\ Budget
  /\ StoreMade(s) /\ path \in PathsOf(s) /\ db["root"] # "null" /\ FreeVals(World) # {}
  /\ Commit(createValue(World, s, path), StoreCall("createValue", s, path))
  /\ hist' = [hist EXCEPT ![s].created = @ \cup {FreshVal(World)}]
  /\ Spend
  /\ UNCHANGED viewMade

\* new ObservableValue(x), by the caller
MakeValue(x) ==
  /\ Budget
  /\ kind # "none" /\ FreeVals(World) # {}
  /\ Commit(NewValue(World, FreshVal(World), Scalar(x)), StoreCall("newValue", "", ""))
  /\ Spend
  /\ UNCHANGED <<viewMade, hist>>

SetPath(s, path, value) ==
  /\ Budget
  /\ kind # "none" /\ StoreMade(s) /\ path \in PathsOf(s)
  /\ \/ value.t = "vec" /\ vecs[value.id].made
     \/ value.t = "val" /\ vals[value.id].made
                        /\ Len(vals[value.id].slots) < MaxSlots
  /\ Commit(ModelDBSet(World, s, path, value), Call("dbSet", s, path, 0, 0, <<value>>, <<>>))
  /\ Spend
  /\ UNCHANGED <<viewMade, hist>>

View ==
  /\ Budget
  /\ kind # "none" /\ ~viewMade
  /\ viewMade' = TRUE
  /\ Commit(World, StoreCall("view", "root", ViewBase))
  /\ Spend
  /\ UNCHANGED hist

Dispose(s) ==
  /\ Budget
  /\ kind # "none" /\ StoreMade(s)
  /\ Commit(ModelDBDispose(World, s), Call("dispose", s, "", Repeated(s), 0, <<>>, <<>>))
  /\ hist' = [hist EXCEPT ![s].disposeCalled = TRUE]
  /\ Spend
  /\ UNCHANGED viewMade

\* value.set(x), by the caller
ValueSetCall(o, x) ==
  /\ Budget
  /\ vals[o].made
  /\ Commit(ValueSet(World, o, Scalar(x)), Call("valueSet", o, "", 0, 0, <<x>>, <<>>))
  /\ Spend
  /\ UNCHANGED <<viewMade, hist>>

\* Another participant writes y at key of the document's root: the GoogleMap
\* over that root emits `changed` as it does for a write of its own.
RemoteRootSet(key, y) ==
  /\ Budget
  /\ db["root"] = "auth"
  /\ roots["auth"][key].t # "list" /\ roots["auth"][key] # Scalar(y)
  /\ Commit(MapSet(World, "auth", key, Scalar(y)),
            Call("remoteRootSet", "", key, 0, 0, <<y>>, <<>>))
  /\ Spend
  /\ UNCHANGED <<viewMade, hist>>

Permutations_(S) ==
  {f \in [1..Cardinality(S) -> S] : \A i, j \in 1..Cardinality(S) : f[i] = f[j] => i = j}

\* getResourceForPath and loadRealtimeDocument completed
DocumentLoaded ==
  /\ phase = "resolving"
  /\ \E keys \in Permutations_(MapKeys(World, "mem")) :
       Commit(OnDocumentLoaded(World, keys), StoreCall("loaded", "root", ""))
  /\ UNCHANGED <<viewMade, hist, calls>>

\* getResourceForPath or loadRealtimeDocument rejected: the callback never runs
ResolutionFails ==
  /\ phase = "resolving"
  /\ Commit([World EXCEPT !.phase = "failed"], StoreCall("failed", "root", ""))
  /\ UNCHANGED <<viewMade, hist, calls>>

\* Both adapters wrap the same list and were constructed alike, so the calls
\* that change the list are made on v1 and either adapter may be disposed.
VecNext ==
  \/ \E i \in 0..MaxLen, x \in Items : Set("v1", i, x)
  \/ \E x \in Items : PushBack("v1", x)
  \/ PopBack("v1")
  \/ \E i \in 0..MaxLen, x \in Items : Insert("v1", i, x)
  \/ \E i \in 0..MaxLen : RemoveAt("v1", i)
  \/ Clear("v1")
  \/ \E x \in Items, lib \in OutOfRange : Remove("v1", x, lib)
  \/ \E i \in 0..MaxLen, j \in 0..MaxLen : Move("v1", i, j)
  \/ \E xs \in Batches : PushAll("v1", xs)
  \/ \E i \in 0..MaxLen, xs \in Batches : InsertAll("v1", i, xs)
  \/ \E i \in 0..MaxLen, j \in 0..MaxLen : RemoveRange("v1", i, j)
  \/ \E v \in VecIds : DisposeVector(v)
  \/ \E i \in 0..MaxLen, xs \in Batches : RemoteInsert("p1", i, xs)
  \/ \E i \in 0..MaxLen, n \in 1..MaxLen : RemoteRemove("p1", i, n)
  \/ \E i \in 0..MaxLen, x \in Items : RemoteSet("p1", i, x)

VecSpec == VecInit /\ [][VecNext]_vars

\* ------------------------------------------ a vector given another list
\* An adapter over a list, perhaps a second adapter over the same list, and
\* another list; other participants may change either list.
RebindInit ==
  \E old \in SeqsUpTo(MaxStoreLen + 1), new \in SeqsUpTo(MaxStoreLen + 1),
     two \in BOOLEAN :
    LET W1 == CreateList(Blank, "p1", "auth", old)
        W2 == CreateList(W1, "p2", "auth", new)
        W3 == NewVector(W2, "v1", "p1")
        W4 == IF two THEN NewVector(W3, "v2", "p1") ELSE W3
    IN /\ StartFrom(W4)
       /\ kind = "rebind"

RebindNext ==
  \/ \E p \in {"p1", "p2"} : Rebind("v1", p)
  \/ \E x \in Items : PushBack("v1", x)
  \/ PopBack("v1")
  \/ \E p \in {"p1", "p2"}, xs \in Batches : RemoteInsert(p, 0, xs)
  \/ \E v \in VecIds : DisposeVector(v)

RebindSpec == RebindInit /\ [][RebindNext]_vars

\* ------------------------------------------- the store's initial states
Scalars == {"5", "7"}

\* --------------------------------------------- values bridged to a root
\* A store given a model, two values, and up to MaxBridges calls of
\* set(path, value) already made, in every order and with repetitions.
BridgeRegs == UNION {[1..n -> ValIds \X Paths] : n \in 0..MaxBridges}

RECURSIVE Bridged(_, _)
Bridged(W, regs) ==
  IF regs = <<>> THEN W
  ELSE Bridged(ModelDBSet(W, "root", Head(regs)[2], ValRef(Head(regs)[1])),
               Tail(regs))

BridgeInit ==
  \E x1 \in {"5", "10"}, x2 \in {"5", "10"}, regs \in BridgeRegs :
    LET Given == NewMap([Blank EXCEPT !.model["root"] = "auth", !.db["root"] = "auth"],
                        "auth")
        W1 == NewValue(NewValue(Given, "o1", Scalar(x1)), "o2", Scalar(x2))
    IN /\ StartFrom(Bridged(W1, regs))
       /\ kind = "bridge"

BridgeNext ==
  \/ \E o \in ValIds, x \in Scalars : ValueSetCall(o, x)
  \/ \E key \in Paths, y \in Scalars : RemoteRootSet(key, y)

BridgeSpec == BridgeInit /\ [][BridgeNext]_vars
StoreItems == {"A"}

\* What the document that will be loaded (or the model supplied) holds in its
\* root: nothing, a value, a list, or entries written through a view.
AuthRoots ==
  { EmptyRoot,
    [EmptyRoot EXCEPT !["y"] = Scalar("10")],
    [EmptyRoot EXCEPT !["x"] = ListRef("p1")],
    [EmptyRoot EXCEPT !["x"] = Scalar("10"), ![Join(ViewBase, "x")] = ListRef("p1")] }
AuthLists == {<<>>, <<"C">>}

Init ==
  \E k \in {"lazy", "model"}, r \in AuthRoots, items \in AuthLists :
    LET W1 == [Blank EXCEPT !.roots["auth"] = r]
        W2 == IF \E key \in Keys : r[key] = ListRef("p1")
              THEN CreateList(W1, "p1", "auth", items)
              ELSE W1
        \* newInMemoryDocument, getModel, new GoogleMap(getRoot())
        Lazy == NewMap([W2 EXCEPT !.doc["root"] = "mem", !.model["root"] = "mem",
                                  !.db["root"] = "mem", !.phase = "resolving"],
                       "mem")
        \* options.model, new GoogleMap(getRoot())
        Given == NewMap([W2 EXCEPT !.model["root"] = "auth", !.db["root"] = "auth"],
                        "auth")
    IN /\ StartFrom(IF k = "lazy" THEN Lazy ELSE Given)
       /\ kind = k

Next ==
  \/ \E s \in StoreIds, path \in Paths : CreateVector(s, path)
  \/ \E s \in StoreIds, path \in Paths : CreateValue(s, path)
  \/ MakeValue("5")
  \/ \E s \in StoreIds, path \in Paths, v \in VecIds : SetPath(s, path, VecRef(v))
  \/ \E s \in StoreIds, path \in Paths, o \in ValIds : SetPath(s, path, ValRef(o))
  \/ View
  \/ \E s \in StoreIds : Dispose(s)
  \/ \E o \in ValIds, x \in Scalars : ValueSetCall(o, x)
  \/ \E key \in Keys : RemoteRootSet(key, "7")
  \/ DocumentLoaded
  \/ ResolutionFails
  \/ \E v \in VecIds, x \in StoreItems : PushBack(v, x)
  \/ \E v \in VecIds : DisposeVector(v)

Spec == Init /\ [][Next]_vars

\* ============================================================== claims

\* The calls C1 lists: the ones that change the vector.
LocalMutation ==
  \/ last.op \in {"pushBack", "insert", "pushAll", "insertAll", "popBack",
                  "removeAt", "removeRange", "clear"}
  \/ last.op = "set" /\ ~itemCmp(At(last.before, last.i), last.vals[1])
  \/ last.op = "move" /\ last.i # last.j /\ Len(last.before) > 1

\* C1: echo suppression. A local mutation call on a vector whose `changed`
\* still has its listeners makes exactly one emission on that vector, and the
\* events the list fires for the call (all flagged isLocal) make no emission
\* at all, neither on the called adapter nor on another adapter of the list.
C1_EchoSuppression ==
  (LocalMutation /\ ~vecs[last.who].isDisposed) =>
     /\ Len(emitted[last.who]) = 1
     /\ emitted[last.who][1].type \in {"add", "remove", "set", "move"}
     /\ \A w \in VecIds \ {last.who} : emitted[w] = <<>>

\* A batch of two was pushed while a second adapter listened on the same list.
C1_Witness ==
  /\ last.op = "pushAll" /\ Len(last.vals) = 2
  /\ vecs["v2"].made /\ ~vecs["v2"].isDisposed
  /\ prims["p1"].listeners["v2"] = 1
  /\ Len(emitted["v1"]) = 1

\* C2: move semantics. With more than one element and fromIndex # toIndex the
\* contents become those of removing the element at fromIndex and inserting
\* it at toIndex of the shortened sequence, and one `move` event with both
\* indices and the moved value is emitted; with one element or
\* fromIndex = toIndex nothing changes and nothing is emitted.
C2_MoveSemantics ==
  last.op = "move" =>
    LET x == At(last.before, last.i) IN
    IF Len(last.before) > 1 /\ last.i # last.j
    THEN /\ Contents(last.who) = ListInsert(ListRemove(last.before, last.i), last.j, x)
         /\ ~vecs[last.who].isDisposed =>
              emitted[last.who] = <<Ev("move", last.i, last.j, <<x>>, <<x>>)>>
    ELSE /\ Contents(last.who) = last.before
         /\ emitted[last.who] = <<>>

\* [A,B,C] move(0,2) gave [B,C,A].
C2_Witness ==
  /\ last.op = "move" /\ last.i = 0 /\ last.j = 2
  /\ last.before = <<"A", "B", "C">>
  /\ Contents("v1") = <<"B", "C", "A">>
  /\ Len(emitted["v1"]) = 1

\* C3: scalar reconciliation. When the load callback completes, a value that
\* is in the local index at a path the loaded root lacked is still the object
\* get(path) returns, still holds its value, and that value is the loaded
\* root's entry at the path; every entry the loaded root had is unchanged.
C3_ScalarReconciliation ==
  [][(phase = "resolving" /\ phase' = "bound") =>
       /\ \A key \in Keys, o \in ValIds :
            (localDB["root"][key] = ValRef(o) /\ ~MapHas(World, "auth", key)) =>
               /\ localDB'["root"][key] = ValRef(o)
               /\ vals'[o].value = vals[o].value
               /\ roots'["auth"][key] = vals[o].value
       /\ \A key \in Keys :
            MapHas(World, "auth", key) => roots'["auth"][key] = roots["auth"][key]
    ]_vars

\* The loaded root held y = 10; the value 5 set at x before the load is now
\* the root's entry at x, beside y = 10.
C3_Witness ==
  /\ last.op = "loaded" /\ phase = "bound"
  /\ localDB["root"]["x"] = ValRef("o1")
  /\ vals["o1"].value = Scalar("5")
  /\ roots["auth"]["x"] = Scalar("5")
  /\ roots["auth"]["y"] = Scalar("10")

RecreatedAt(key, v) ==
  LET p == vecs'[v].vec IN
  /\ prims'[p].items = Contents(v)
  /\ ~prims[p].made /\ prims'[p].made /\ prims'[p].model = "auth"
  /\ roots'["auth"][key] = ListRef(p)

\* C5 as stated: for every placeholder vector at a path the loaded root
\* lacked.
C5_PlaceholderVectorRecreatedAnywhere ==
  [][(phase = "resolving" /\ phase' = "bound") =>
       \A key \in Keys, v \in VecIds :
         (localDB["root"][key] = VecRef(v) /\ ~MapHas(World, "auth", key)) =>
            RecreatedAt(key, v)
    ]_vars

\* The adapters a store's createVector and createValue returned.
CreatedDisposed(s) ==
  \A id \in hist[s].created :
    IF id \in VecIds THEN vecs[id].isDisposed ELSE vals[id].isDisposed

\* The model whose root the root store's GoogleMap wraps, or wrapped when
\* dispose() was called.
RootMapOf ==
  IF kind = "lazy" /\ phase \in {"resolving", "failed"} THEN "mem" ELSE "auth"

\* C6 as stated: a store on which dispose() was not called is not disposed;
\* once it was called the store is disposed, holds no document, model or
\* root, its GoogleMap is disposed and so is every container its
\* createVector and createValue returned.
C6_DisposalReleasesEverything ==
  \A s \in StoreIds : StoreMade(s) =>
    IF ~hist[s].disposeCalled
    THEN ~isDisposed(World, s)
    ELSE /\ isDisposed(World, s)
         /\ doc[s] = "null" /\ model[s] = "null" /\ db[s] = "null"
         /\ ~IsView(s) => maps[RootMapOf].isDisposed
         /\ CreatedDisposed(s)

\* C7 as stated: a lazily resolving store that is disposed remains disposed,
\* with no document, model or root, and the completion of the load raises
\* no error.
C7_DisposedStaysDisposed ==
  [][(kind = "lazy" /\ isDisposed(World, "root")) =>
       /\ doc'["root"] = "null" /\ model'["root"] = "null" /\ db'["root"] = "null"
       /\ last'.op = "loaded" => ~error'
    ]_vars

\* C8 as stated: the connected promise of a store constructed with a model
\* is resolved, in the state after construction and ever after.
C8_ConnectedWithGivenModel ==
  kind = "model" => connectedOf(World, "root")

\* C9: idempotent disposal. A dispose() that follows a dispose() on the same
\* store or vector raises nothing and leaves every object as the first call
\* left it.
C9_IdempotentDisposal ==
  [][(last'.op = "dispose" /\ last'.i = 1) =>
       /\ ~error'
       /\ emitted' = NoEmissions
       /\ <<vecs, prims, vals, maps, roots, localDB, disposables, phase, doc,
            model, db, isPrepopulated, connected>>' =
          <<vecs, prims, vals, maps, roots, localDB, disposables, phase, doc,
            model, db, isPrepopulated, connected>>
    ]_vars

\* dispose() was called twice in a row on a lazily constructed store that
\* had created a vector.
C9_Witness ==
  /\ last.op = "dispose" /\ last.who = "root" /\ last.i = 1
  /\ kind = "lazy" /\ isDisposed(World, "root")
  /\ \E v \in VecIds : v \in hist["root"].created /\ vecs[v].isDisposed

\* What set() writes to the root for a value: the list a vector wraps, the
\* content of an ObservableValue.
StoredForm(value) ==
  IF value.t = "vec" THEN ListRef(vecs[value.id].vec) ELSE vals[value.id].value

\* C10: view delegation. A view has no document or root of its own; has and
\* getGoogleObject on the view at b answer as the base does at a/b; after
\* set(b, X) on the view the base's get(a/b) is X and the base's root holds
\* X's stored form at a/b.
C10_ViewDelegation ==
  viewMade =>
    /\ doc["view"] = "null" /\ db["view"] = "null"
    /\ db["root"] # "null" =>
         \A b \in ViewPaths :
           /\ has(World, "view", b) = has(World, "root", Join(ViewBase, b))
           /\ getGoogleObject(World, "view", b) =
                getGoogleObject(World, "root", Join(ViewBase, b))
    /\ (last.op = "dbSet" /\ last.who = "view") =>
         /\ get(World, "root", Join(ViewBase, last.path)) = last.vals[1]
         /\ db["root"] # "null" =>
              MapGet(World, db["root"], Join(ViewBase, last.path)) =
                StoredForm(last.vals[1])

\* A value holding 5 was set at x through the view.
C10_Witness ==
  /\ last.op = "dbSet" /\ last.who = "view" /\ last.path = "x"
  /\ last.vals = <<ValRef("o1")>>
  /\ db["root"] # "null"
  /\ localDB["root"][Join(ViewBase, "x")] = ValRef("o1")
  /\ roots[db["root"]][Join(ViewBase, "x")] = Scalar("5")
  /\ has(World, "view", "x")

\* The paths at which set() bridged the value o to the root.
BridgedPaths(o) == {vals[o].slots[k] : k \in DOMAIN vals[o].slots}

\* C11 as stated: scalar bridge. On a root store that was not disposed, a
\* value.set(x) leaves x as the root's entry at every path the value was set
\* at; a change by another participant of the root's entry at such a path to
\* y leaves y as the value's content; a value none of whose paths changed in
\* the root keeps its content.
C11_ScalarBridge ==
  [][(~hist["root"].disposeCalled /\ db'["root"] # "null") =>
       /\ last'.op = "valueSet" =>
            \A p \in BridgedPaths(last'.who) :
              roots'[db'["root"]][p] = Scalar(last'.vals[1])
       /\ last'.op = "remoteRootSet" =>
            \A o \in ValIds :
              /\ last'.path \in BridgedPaths(o) =>
                   vals'[o].value = Scalar(last'.vals[1])
              /\ (\A q \in BridgedPaths(o) : roots'["auth"][q] = roots["auth"][q]) =>
                   vals'[o].value = vals[o].value
    ]_vars

\* The root key a store's path stands for.
RootKey(s, path) == IF IsView(s) THEN Join(ViewBase, path) ELSE path

\* The adapter a createVector step returned.
Returned == CHOOSE v \in VecIds : ~vecs[v].made /\ vecs'[v].made

\* C12: adoption in createVector. When has(path) held, the returned adapter
\* wraps the list already stored at the path and the root's entry is
\* unchanged; when it did not, a list is created in the current model and
\* stored at the path. Afterwards has(path) holds, get(path) is the returned
\* adapter and getGoogleObject(path) is the list the adapter wraps.
C12_Adoption ==
  [][(last'.op = "createVector" /\ ~error') =>
       LET s == last'.who
           key == RootKey(s, last'.path)
           old == roots[db["root"]][key]
           new == roots'[db'["root"]][key]
           p == vecs'[Returned].vec
       IN /\ old # NoEntry => p = old.v /\ new = old
          /\ old = NoEntry =>
               ~prims[p].made /\ prims'[p].made /\ prims'[p].model = model["root"]
          /\ new # NoEntry
          /\ localDB'[s][last'.path] = VecRef(Returned)
          /\ new = ListRef(p)
    ]_vars

\* A view's createVector has adopted a list that another adapter wraps too.
C12_Witness ==
  /\ last.op = "createVector" /\ last.who = "view" /\ ~error
  /\ \E v, w \in VecIds :
       /\ v # w /\ vecs[v].made /\ vecs[w].made
       /\ localDB["view"][last.path] = VecRef(v)
       /\ vecs[w].vec = vecs[v].vec
       /\ roots[db["root"]][RootKey("view", last.path)] = ListRef(vecs[v].vec)

\* The lazily constructed root store has not bound the document.
Unbound == kind = "lazy" /\ phase \in {"resolving", "failed"}

\* C13: isPrepopulated of a lazily constructed root store is false until the
\* document is bound; the binding makes it true exactly when the document's
\* root had an entry before anything was migrated into it; no other step
\* changes it; a view reports what its base reports.
C13_IsPrepopulated ==
  [][/\ Unbound => ~isPrepopulatedOf(World, "root")
     /\ Unbound' => ~isPrepopulatedOf(World, "root")'
     /\ (last'.op = "loaded" /\ ~hist["root"].disposeCalled) =>
          isPrepopulatedOf(World, "root")' = (MapKeys(World, "auth") # {})
     /\ last'.op # "loaded" =>
          isPrepopulatedOf(World, "root")' = isPrepopulatedOf(World, "root")
     /\ isPrepopulatedOf(World, "view")' = isPrepopulatedOf(World, "root")'
    ]_vars

\* The store bound a document that had no entry and migrated one into it,
\* and a view of it exists.
C13_Witness ==
  /\ kind = "lazy" /\ last.op = "loaded" /\ phase = "bound" /\ viewMade
  /\ ~isPrepopulatedOf(World, "view")
  /\ MapKeys(World, "auth") # {}

C15_RemoveValue ==
  [][(last'.op = "remove" /\ ~vecs[last'.who].isDisposed) =>
       LET v == last'.who
           x == last'.vals[1]
           before == Contents(v)
           after == prims'[vecs'[v].vec].items
           i == removeReturn(World, v, x)
       IN /\ ~error'
          /\ (\E k \in 1..Len(before) : before[k] = x) =>
               /\ i \in 0..(Len(before) - 1) /\ At(before, i) = x
               /\ \A k \in 0..(i - 1) : At(before, k) # x
               /\ after = SubSeq(before, 1, i) \o SubSeq(before, i + 2, Len(before))
               /\ emitted'[v] = <<Ev("remove", i, -1, <<x>>, <<>>)>>
          /\ (\A k \in 1..Len(before) : before[k] # x) =>
               i = -1 /\ after = before /\ emitted'[v] = <<>>
    ]_vars

\* The index of the first element a delete call removes, and how many.
DeleteFrom(call) ==
  CASE call.op = "popBack" -> Len(call.before) - 1
    [] call.op = "removeAt" -> call.i
    [] call.op = "removeRange" -> call.i
    [] call.op = "clear" -> 0
DeleteCount(call) ==
  CASE call.op = "popBack" -> 1
    [] call.op = "removeAt" -> 1
    [] call.op = "removeRange" -> call.j - call.i
    [] call.op = "clear" -> Len(call.before)

\* C16: delete operations report what they removed. popBack, removeAt,
\* removeRange and clear on in-range arguments, on a vector that was not
\* disposed, emit one `remove` event whose oldValues are the removed
\* elements in their order and whose oldIndex is the index the first of them
\* had (0 for clear, the last index for popBack); afterwards the vector holds
\* the prior contents without those elements, and clear leaves length 0.
C16_DeleteReports ==
  [][(last'.op \in {"popBack", "removeAt", "removeRange", "clear"}
        /\ ~vecs[last'.who].isDisposed) =>
       LET v == last'.who
           before == Contents(v)
           after == prims'[vecs'[v].vec].items
           from == DeleteFrom(last')
           n == DeleteCount(last')
       IN /\ last'.before = before
          /\ Len(emitted'[v]) = 1
          /\ emitted'[v][1].type = "remove"
          /\ emitted'[v][1].oldValues = SubSeq(before, from + 1, from + n)
          /\ emitted'[v][1].oldIndex = from
          /\ emitted'[v][1].newValues = <<>>
          /\ after = SubSeq(before, 1, from) \o SubSeq(before, from + n + 1, Len(before))
          /\ last'.op = "clear" => Len(after) = 0
          /\ last'.op = "popBack" => from = Len(before) - 1
    ]_vars

\* removeRange took the last two, different, elements of three.
C16_Witness ==
  /\ last.op = "removeRange" /\ last.i = 1 /\ last.j = 3
  /\ ~vecs[last.who].isDisposed
  /\ Len(last.before) = 3 /\ last.before[2] # last.before[3]
  /\ Contents(last.who) = <<last.before[1]>>
  /\ emitted[last.who] = <<Ev("remove", 1, -1, SubSeq(last.before, 2, 3), <<>>)>>

\* C17: no-op set. set(i, v) with v equal, by the comparator, to the element
\* at i emits nothing on any adapter, issues no write to the list, and leaves
\* the contents, the list and the vector as they were.
C17_NoOpSet ==
  [][(last'.op = "set"
        /\ itemCmp(At(Contents(last'.who), last'.i), last'.vals[1])) =>
       /\ \A w \in VecIds : emitted'[w] = <<>>
       /\ writes' = 0
       /\ prims' = prims /\ vecs' = vecs
    ]_vars

\* set(1, "B") on a vector holding "B" at index 1, beside other elements.
C17_Witness ==
  /\ last.op = "set" /\ last.i = 1 /\ last.vals = <<"B">>
  /\ ~vecs[last.who].isDisposed
  /\ Len(last.before) = 3 /\ last.before[2] = "B" /\ last.before[1] # "B"
  /\ Contents(last.who) = last.before

\* C18 as stated: rebinding detaches the old list. Once the googleObject
\* setter gave a vector another list, of any length, an event of a list the
\* vector no longer wraps makes no emission on the vector.
C18_RebindingDetaches ==
  [][last'.op = "remoteInsert" =>
       \A v \in VecIds :
         (vecs[v].made /\ vecs[v].vec # last'.who) => emitted'[v] = <<>>
    ]_vars

\* C19: ordering of `connected` for a lazily constructed root store. It is
\* unresolved while the document is not bound. It resolves only in the load
\* callback, and then the callback has gone through every key: the store
\* holds the document, its model and root, every key the placeholder root
\* had is in the document's root, and every vector of the local index wraps
\* a list of the document. Once resolved it stays so and the callback does
\* not run again. After a failed resolution it stays unresolved, the store
\* keeps the placeholder, and pushBack on a vector created before works on
\* the placeholder's list.
C19_ConnectedOrdering ==
  [][kind = "lazy" =>
       /\ Unbound => ~connectedOf(World, "root")
       /\ Unbound' => ~connectedOf(World, "root")'
       /\ (~connected /\ connected') =>
            /\ last'.op = "loaded" /\ phase' = "bound" /\ ~error'
            /\ doc'["root"] = "auth" /\ model'["root"] = "auth" /\ db'["root"] = "auth"
            /\ \A key \in MapKeys(World, "mem") : roots'["auth"][key] # NoEntry
            /\ \A key \in Keys, v \in VecIds :
                 localDB["root"][key] = VecRef(v) =>
                   /\ prims'[vecs'[v].vec].model = "auth"
                   /\ roots'["auth"][key].t = "list"
       /\ connected => (connected' /\ last'.op # "loaded")
       /\ phase = "failed" =>
            /\ phase' = "failed" /\ ~connected'
            /\ ~hist["root"].disposeCalled' =>
                 doc'["root"] = "mem" /\ model'["root"] = "mem" /\ db'["root"] = "mem"
            /\ last'.op = "pushBack" =>
                 /\ ~error'
                 /\ prims'[vecs'[last'.who].vec].items
                      = Append(Contents(last'.who), last'.vals[1])
                 /\ emitted'[last'.who]
                      = <<Ev("add", -1, Len(Contents(last'.who)), <<>>, last'.vals)>>
    ]_vars

\* The load callback has resolved `connected` after moving a vector of the
\* placeholder to a list of the document.
C19_Witness ==
  /\ kind = "lazy" /\ last.op = "loaded" /\ phase = "bound"
  /\ connectedOf(World, "root")
  /\ \E key \in Keys, v \in VecIds :
       /\ localDB["root"][key] = VecRef(v)
       /\ roots["auth"][key] = ListRef(vecs[v].vec)
       /\ prims[vecs[v].vec].model = "auth"

\* The one emission that translates the remote event a step delivered.
Translation(call) ==
  CASE call.op = "remoteInsert" -> Ev("add", -1, call.i, <<>>, call.vals)
    [] call.op = "remoteRemove" ->
         Ev("remove", call.i, -1, SubSeq(call.before, call.i + 1, call.i + call.j), <<>>)
    [] call.op = "remoteSet" ->
         Ev("set", call.i, call.i, <<At(call.before, call.i)>>, call.vals)

\* C20 as stated: remote event translation. An add, remove or set event of
\* the wrapped list with isLocal false makes, on a vector that was not
\* disposed, exactly one emission of the same kind with the event's index
\* and values, at the time the event is delivered; on a disposed vector it
\* makes none.
C20_RemoteTranslation ==
  [][last'.op \in {"remoteInsert", "remoteRemove", "remoteSet"} =>
       \A v \in VecIds :
         (vecs[v].made /\ vecs[v].vec = last'.who) =>
            IF vecs[v].isDisposed
            THEN emitted'[v] = <<>>
            ELSE emitted'[v] = <<Translation(last')>>
    ]_vars

\* The listeners value.changed and the root's `changed` hold.
ValueSlots == Len(vals["o1"].slots) + Len(vals["o2"].slots)
RootSlots == Len(maps["auth"].slots)

\* C21: the scalar bridge cannot loop. With values bridged to paths of the
\* root, the same value or path more than once included, one value.set(x)
\* or one change of a root entry by another participant runs a bounded
\* number of listeners, which write the root at most once per path and not
\* at the path the participant changed, and set each value at most once and
\* not the value the caller set; when the step ends no listener has anything
\* left to do: every bridged value equals the root's entry at its path.
C21_BridgeCannotLoop ==
  [][last'.op \in {"valueSet", "remoteRootSet"} =>
       /\ \A key \in Keys : bridge'.rootWrites[key] <= 1
       /\ \A o \in ValIds : bridge'.valueSets[o] <= 1
       /\ last'.op = "valueSet" => bridge'.valueSets[last'.who] = 0
       /\ last'.op = "remoteRootSet" => bridge'.rootWrites[last'.path] = 0
       /\ bridge'.invoked <= ValueSlots + (Cardinality(Keys) + 1) * RootSlots
       /\ \A k \in 1..Len(maps'["auth"].slots) :
            LET slot == maps'["auth"].slots[k]
            IN vals'[slot.val].value = roots'["auth"][slot.path]
    ]_vars

\* o1.set(x) with o1 set twice at "x" and o2 set at "x" too: one listener
\* wrote the root, another set o2, the others found nothing to do.
C21_Witness ==
  /\ kind = "bridge" /\ last.op = "valueSet" /\ last.who = "o1"
  /\ vals["o1"].slots = <<"x", "x">>
  /\ "x" \in {vals["o2"].slots[k] : k \in DOMAIN vals["o2"].slots}
  /\ bridge.rootWrites["x"] = 1 /\ bridge.valueSets["o2"] = 1
  /\ bridge.invoked >= 5
  /\ vals["o2"].value = vals["o1"].value

\* C22 as stated: scalar values stay synchronized across binding. When the
\* load callback completes, every value the local index held at a path,
\* whether or not the loaded root had an entry there, equals the loaded
\* root's entry at the path (an entry that is a list is left aside); and a
\* later change of that entry by another participant becomes the value's
\* content.
C22_ScalarsAcrossBinding ==
  [][/\ (phase = "resolving" /\ phase' = "bound") =>
          \A key \in Keys, o \in ValIds :
            (localDB["root"][key] = ValRef(o) /\ roots["auth"][key].t # "list") =>
               vals'[o].value = roots'["auth"][key]
     /\ (phase = "bound" /\ last'.op = "remoteRootSet"
           /\ ~hist["root"].disposeCalled) =>
          \A o \in ValIds :
            localDB["root"][last'.path] = ValRef(o) =>
              vals'[o].value = Scalar(last'.vals[1])
    ]_vars

\* C23 as stated: reconciliation is silent for unchanged content. In the
\* step that binds the document, a vector of the placeholder whose path the
\* loaded root lacked and whose contents are after the step what they were
\* before makes no emission.
C23_SilentReconciliation ==
  [][(phase = "resolving" /\ phase' = "bound") =>
       \A key \in Keys, v \in VecIds :
         (/\ localDB["root"][key] = VecRef(v)
          /\ ~MapHas(World, "auth", key)
          /\ ~vecs[v].isDisposed
          /\ prims'[vecs'[v].vec].items = Contents(v)) =>
            emitted'[v] = <<>>
    ]_vars

====
